---- MODULE Spec2Model ----
(***************************************************************************)
(* A model of src/index.js: the storefront backend's account flow          *)
(* (POST /signup, POST /login over the Users collection) and its product   *)
(* catalog (POST/GET/PUT/DELETE /products over the Product collection,     *)
(* with the multer image intake in front of the two writing routes).       *)
(*                                                                         *)
(* Every `await` of a handler is a point where other requests may run, so  *)
(* a handler is one action per stretch of code between two awaits.         *)
(***************************************************************************)
EXTENDS Integers, Sequences, FiniteSets, TLC

VARIABLES
    users,      \* the Users collection, in insertion order
    reqs,       \* the /signup and /login requests received so far, with their locals
    products,   \* the Product collection, in insertion order
    nextId,     \* how many Product documents have been constructed (ObjectId source)
    now,        \* Date.now(), in milliseconds
    uploads,    \* multipart requests inside upload.array("images", 50)
    last,       \* the catalog request answered last: request, response, catalog before
    origin,     \* per product id: the `data` text it was created with, and whether
                \* a later update or delete touched its data
    stripUndefined \* whether the installed mongoose drops undefined keys of an update

vars == <<users, reqs, products, nextId, now, uploads, last, origin, stripUndefined>>

authVars == <<users, reqs>>
catalogVars == <<products, nextId, now, uploads, last, origin, stripUndefined>>

(***************************************************************************)
(* Bounds of the model.                                                    *)
(***************************************************************************)
MaxRequests == 3
MaxProducts == 1
MaxClock == 1
MaxUploads == 1

(***************************************************************************)
(* JavaScript values.                                                      *)
(* A JavaScript value is a one-field record whose field name is its type, so   *)
(* that values of different types compare unequal instead of failing to       *)
(* compare. Text that the code inspects character by character (file names,   *)
(* content types, JSON, trimmed or cast form fields) is a sequence of         *)
(* one-character strings.                                                     *)
(***************************************************************************)
Undefined == [undef |-> 0]
Null == [null |-> 0]
Str(s) == [str |-> s]
Num(n) == [num |-> n]
Bool(b) == [bool |-> b]
Obj(f) == [obj |-> f]
Arr(a) == [arr |-> a]

IsStr(v) == DOMAIN v = {"str"}

Range(s) == {s[i] : i \in DOMAIN s}

(***************************************************************************)
(*                         ACCOUNTS: /signup, /login                       *)
(***************************************************************************)
Emails == {"a@x.io", "b@x.io"}
Passwords == {Str("pw1"), Str("pw2")}
Usernames == {"ann"}

CartSlots == 300
BcryptCost == 10
JwtSecret == "secret_ecom"
JwtLifetime == "1h"

\* bcrypt.hash(data, cost): rejects when data is undefined; otherwise a salted
\* one-way digest. The digest is symbolic: equal exactly when salt and data are.
BcryptHash(password, salt) ==
    [cost |-> BcryptCost, salt |-> salt, digest |-> <<"bcrypt", salt, password>>]

\* bcrypt.compare(data, hash): re-derives the digest with the hash's own salt.
BcryptCompare(password, hash) ==
    BcryptHash(password, hash.salt).digest = hash.digest

\* jwt.sign(payload, "secret_ecom", {expiresIn: "1h"})
JwtSign(payload) == [payload |-> payload, key |-> JwtSecret, expiresIn |-> JwtLifetime]

\* Users.findOne({email}): the first document with that email, or null.
FindOneByEmail(store, email) ==
    IF \E i \in DOMAIN store : store[i].email = email
    THEN store[CHOOSE i \in DOMAIN store :
                  /\ store[i].email = email
                  /\ \A j \in DOMAIN store : store[j].email = email => i <= j]
    ELSE Null

\* A variant of UsersInsert: a collection whose email path has no unique index.
UsersInsert_NoUniqueIndex(store, doc) ==
    [ok |-> TRUE, store |-> Append(store, doc)]

\* user.save() on the Users model, whose email path is declared unique: the
\* collection's unique index refuses a second document with the same email
\* (E11000), which save() throws.
UsersInsert(store, doc) ==
    IF \E i \in DOMAIN store : store[i].email = doc.email
    THEN [ok |-> FALSE, store |-> store]
    ELSE [ok |-> TRUE, store |-> Append(store, doc)]

\* The cart seeded at signup: slots 0..299, all zero.
NewCart == [i \in 0..(CartSlots - 1) |-> 0]

\* A request as received: the body's fields and the handler's locals, all unset.
NewRequest(kind, username, email, password) ==
    [kind |-> kind, pc |-> "findOne", username |-> username, email |-> email,
     password |-> password, found |-> Null, hashed |-> Null,
     status |-> 0, body |-> Null]

\* res.status(status).json(body)
Respond(r, status, body) == [r EXCEPT !.pc = "done", !.status = status, !.body = body]

Failure(error) == [success |-> FALSE, error |-> error]
TokenFor(user) == [success |-> TRUE, token |-> JwtSign([user |-> [id |-> user.id]])]

\* POST /signup arrives.
SignupReceive ==
    /\ Len(reqs) < MaxRequests
    /\ \E u \in Usernames, e \in Emails, p \in Passwords \cup {Undefined} :
          reqs' = Append(reqs, NewRequest("signup", u, e, p))
    /\ UNCHANGED users
    /\ UNCHANGED catalogVars

\* const existingUser = await Users.findOne({ email }); if (existingUser) 400
SignupFindOne(i) ==
    /\ reqs[i].kind = "signup" /\ reqs[i].pc = "findOne"
    /\ LET existingUser == FindOneByEmail(users, reqs[i].email)
       IN reqs' = [reqs EXCEPT ![i] =
              IF existingUser # Null
              THEN Respond([@ EXCEPT !.found = existingUser], 400, Failure("Email already exists"))
              ELSE [@ EXCEPT !.pc = "hash"]]
    /\ UNCHANGED users
    /\ UNCHANGED catalogVars

\* const hashedPassword = await bcrypt.hash(password, 10); a missing password
\* makes bcrypt reject, which the catch turns into 500.
SignupHash(i) ==
    /\ reqs[i].kind = "signup" /\ reqs[i].pc = "hash"
    /\ reqs' = [reqs EXCEPT ![i] =
          IF reqs[i].password = Undefined
          THEN Respond(@, 500, Failure("Server error"))
          ELSE [@ EXCEPT !.pc = "save", !.hashed = BcryptHash(reqs[i].password, i)]]
    /\ UNCHANGED users
    /\ UNCHANGED catalogVars

\* new Users({...}); await user.save(); jwt.sign; res.json({success: true, token})
SignupSave(i) ==
    /\ reqs[i].kind = "signup" /\ reqs[i].pc = "save"
    /\ LET user == [id |-> i, name |-> reqs[i].username, email |-> reqs[i].email,
                    password |-> reqs[i].hashed, cartDate |-> NewCart]
           saved == UsersInsert(users, user)
       IN /\ users' = saved.store
          /\ reqs' = [reqs EXCEPT ![i] =
                IF saved.ok
                THEN Respond(@, 200, TokenFor(user))
                ELSE Respond(@, 500, Failure("Server error"))]
    /\ UNCHANGED catalogVars

\* POST /login arrives.
LoginReceive ==
    /\ Len(reqs) < MaxRequests
    /\ \E e \in Emails, p \in Passwords \cup {Undefined} :
          reqs' = Append(reqs, NewRequest("login", Undefined, e, p))
    /\ UNCHANGED users
    /\ UNCHANGED catalogVars

\* const user = await Users.findOne({ email }); if (!user) 400 "Invalid Email"
LoginFindOne(i) ==
    /\ reqs[i].kind = "login" /\ reqs[i].pc = "findOne"
    /\ LET user == FindOneByEmail(users, reqs[i].email)
       IN reqs' = [reqs EXCEPT ![i] =
              IF user = Null
              THEN Respond(@, 400, Failure("Invalid Email"))
              ELSE [@ EXCEPT !.pc = "compare", !.found = user]]
    /\ UNCHANGED users
    /\ UNCHANGED catalogVars

\* A variant of LoginAnswer: the isMatch test is dropped.
LoginAnswer_NoMatchTest(user, password) ==
    IF password = Undefined
    THEN [status |-> 500, body |-> Failure("Server error")]
    ELSE [status |-> 200, body |-> TokenFor(user)]

\* const isMatch = await bcrypt.compare(password, user.password); a missing
\* password makes bcrypt reject (500); no match is 400 "Invalid Password";
\* otherwise the token for the user's id.
LoginAnswer(user, password) ==
    IF password = Undefined
    THEN [status |-> 500, body |-> Failure("Server error")]
    ELSE IF ~BcryptCompare(password, user.password)
    THEN [status |-> 400, body |-> Failure("Invalid Password")]
    ELSE [status |-> 200, body |-> TokenFor(user)]

LoginCompare(i) ==
    /\ reqs[i].kind = "login" /\ reqs[i].pc = "compare"
    /\ LET a == LoginAnswer(reqs[i].found, reqs[i].password)
       IN reqs' = [reqs EXCEPT ![i] = Respond(@, a.status, a.body)]
    /\ UNCHANGED users
    /\ UNCHANGED catalogVars

AuthNext ==
    \/ SignupReceive
    \/ LoginReceive
    \/ \E i \in DOMAIN reqs : SignupFindOne(i)
    \/ \E i \in DOMAIN reqs : SignupHash(i)
    \/ \E i \in DOMAIN reqs : SignupSave(i)
    \/ \E i \in DOMAIN reqs : LoginFindOne(i)
    \/ \E i \in DOMAIN reqs : LoginCompare(i)

(***************************************************************************)
(*                               TEXT                                      *)
(***************************************************************************)
UpperCase == <<"A", "B", "C", "D", "E", "F", "G", "H", "I", "J", "K", "L", "M",
               "N", "O", "P", "Q", "R", "S", "T", "U", "V", "W", "X", "Y", "Z">>
LowerCase == <<"a", "b", "c", "d", "e", "f", "g", "h", "i", "j", "k", "l", "m",
               "n", "o", "p", "q", "r", "s", "t", "u", "v", "w", "x", "y", "z">>
Digits == <<"0", "1", "2", "3", "4", "5", "6", "7", "8", "9">>

IsDigit(c) == \E d \in DOMAIN Digits : Digits[d] = c
DigitValue(c) == (CHOOSE d \in DOMAIN Digits : Digits[d] = c) - 1

\* String.prototype.toLowerCase
ToLowerCase(s) ==
    [i \in DOMAIN s |->
        IF \E k \in DOMAIN UpperCase : UpperCase[k] = s[i]
        THEN LowerCase[CHOOSE k \in DOMAIN UpperCase : UpperCase[k] = s[i]]
        ELSE s[i]]

\* String.prototype.trim (the `trim: true` setter of a String path)
RECURSIVE TrimLeft(_)
TrimLeft(s) == IF s # <<>> /\ Head(s) = " " THEN TrimLeft(Tail(s)) ELSE s
RECURSIVE TrimRight(_)
TrimRight(s) ==
    IF s # <<>> /\ s[Len(s)] = " " THEN TrimRight(SubSeq(s, 1, Len(s) - 1)) ELSE s
Trim(s) == TrimRight(TrimLeft(s))

\* Whether `pat` occurs somewhere in `s`: what an unanchored RegExp.test of a
\* literal alternative decides.
Occurs(pat, s) ==
    \E i \in 1..(Len(s) - Len(pat) + 1) : SubSeq(s, i, i + Len(pat) - 1) = pat

\* path.extname: from the last "." of the name to its end; "" when the name
\* has no "." or only a leading one.
ExtName(name) ==
    LET dots == {i \in DOMAIN name : name[i] = "."}
    IN IF dots = {} THEN <<>>
       ELSE LET d == CHOOSE i \in dots : \A j \in dots : j <= i
            IN IF d = 1 THEN <<>> ELSE SubSeq(name, d, Len(name))

(***************************************************************************)
(*                 IMAGE INTAKE: multer storage and fileFilter             *)
(***************************************************************************)
MaxFiles == 50

\* const allowedTypes = /jpeg|jpg|png|gif/
AllowedTypes == {<<"j", "p", "e", "g">>, <<"j", "p", "g">>, <<"p", "n", "g">>,
                 <<"g", "i", "f">>}

AllowedTypesTest(s) == \E t \in AllowedTypes : Occurs(t, s)

\* fileFilter: the extension, lower-cased, and the content type as sent must
\* each pass allowedTypes.test.
FileFilter(file) ==
    LET extname == AllowedTypesTest(ToLowerCase(ExtName(file.originalname)))
        mimetype == AllowedTypesTest(file.mimetype)
    IN extname /\ mimetype

\* storage.filename: Date.now() + path.extname(file.originalname)
Filename(ms, file) == [ms |-> ms, ext |-> ExtName(file.originalname)]

\* `/uploads/${file.filename}`
UploadPath(filename) == <<"/uploads/", filename>>

\* The files the requests of the model attach.
FilePng == [originalname |-> <<"a", ".", "p", "n", "g">>,
            mimetype |-> <<"i", "m", "a", "g", "e", "/", "p", "n", "g">>,
            content |-> "A"]
FilePng2 == [originalname |-> <<"b", ".", "p", "n", "g">>,
             mimetype |-> <<"i", "m", "a", "g", "e", "/", "p", "n", "g">>,
             content |-> "B"]
FileJpgUpper == [originalname |-> <<"C", ".", "J", "P", "G">>,
                 mimetype |-> <<"i", "m", "a", "g", "e", "/", "j", "p", "e", "g">>,
                 content |-> "C"]
FileTxt == [originalname |-> <<"n", ".", "t", "x", "t">>,
            mimetype |-> <<"t", "e", "x", "t", "/", "p", "l", "a", "i", "n">>,
            content |-> "T"]
FilePngx == [originalname |-> <<"x", ".", "p", "n", "g", "x">>,
             mimetype |-> <<"i", "m", "a", "g", "e", "/", "p", "n", "g">>,
             content |-> "X"]
FileGifHtml == [originalname |-> <<"g", ".", "g", "i", "f">>,
                mimetype |-> <<"t", "e", "x", "t", "/", "h", "t", "m", "l">>,
                content |-> "G"]

FileLists == {<<FilePng>>, <<FilePng, FilePng2>>, <<FileJpgUpper>>,
              <<FilePng, FileTxt>>, <<FilePngx>>, <<FileGifHtml>>}

\* POST /products and PUT /products/:id enter upload.array("images", 50).
StartUpload(lists) ==
    /\ Len(uploads) < MaxUploads
    /\ \E route \in {"POST", "PUT"}, files \in lists :
          uploads' = Append(uploads, [route |-> route, files |-> files, stored |-> <<>>])
    /\ UNCHANGED <<products, nextId, now, last, origin, stripUndefined>>
    /\ UNCHANGED authVars

RemoveAt(s, u) == SubSeq(s, 1, u - 1) \o SubSeq(s, u + 1, Len(s))

\* multer takes the request's next file: past the 50th, or refused by
\* fileFilter, the request ends in Express's error handler and the route's
\* handler never runs; otherwise the file is written to uploads/ under its
\* new name, replacing a file of that name (the directory's content is not
\* part of the state: the name and the file it was given to are kept in
\* req.files).
UploadFile(u) ==
    LET up == uploads[u]
        k == Len(up.stored) + 1
    IN /\ k <= Len(up.files)
       /\ IF k > MaxFiles \/ ~FileFilter(up.files[k])
          THEN /\ uploads' = RemoveAt(uploads, u)
               /\ last' = [op |-> "rejected", status |-> 500, body |-> Null,
                           id |-> Undefined, fields |-> Null, files |-> up.files,
                           stored |-> up.stored, before |-> products]
          ELSE LET filename == Filename(now, up.files[k])
               IN /\ uploads' = [uploads EXCEPT ![u].stored =
                        Append(@, [filename |-> filename, file |-> up.files[k]])]
                  /\ UNCHANGED last
       /\ UNCHANGED <<products, nextId, now, origin, stripUndefined>>
       /\ UNCHANGED authVars

\* A millisecond passes. (Only the clock's value when a file is named is
\* ever read, so time is let pass only while a file is waiting to be named.)
Tick ==
    /\ now < MaxClock
    /\ \E u \in DOMAIN uploads : Len(uploads[u].stored) < Len(uploads[u].files)
    /\ now' = now + 1
    /\ UNCHANGED <<products, nextId, uploads, last, origin, stripUndefined>>
    /\ UNCHANGED authVars

(***************************************************************************)
(*                       JSON.parse of the `data` field                    *)
(* The fragment the model's payloads need: objects (keys and values may    *)
(* nest), strings without escapes, non-negative integers; no white space.  *)
(***************************************************************************)
SyntaxError == [ok |-> FALSE, val |-> Null, pos |-> 0]
Parsed(v, pos) == [ok |-> TRUE, val |-> v, pos |-> pos]

RECURSIVE ParseString(_, _, _)
ParseString(s, i, acc) ==
    IF i > Len(s) THEN SyntaxError
    ELSE IF s[i] = "\"" THEN Parsed(Str(acc), i + 1)
    ELSE ParseString(s, i + 1, Append(acc, s[i]))

RECURSIVE ParseDigits(_, _, _)
ParseDigits(s, i, n) ==
    IF i <= Len(s) /\ IsDigit(s[i])
    THEN ParseDigits(s, i + 1, 10 * n + DigitValue(s[i]))
    ELSE Parsed(Num(n), i)

\* A number may not start with a superfluous 0.
ParseNumber(s, i) ==
    IF s[i] = "0" /\ i < Len(s) /\ IsDigit(s[i + 1]) THEN SyntaxError
    ELSE ParseDigits(s, i, 0)

PutKey(m, key, v) == [k \in DOMAIN m \cup {key} |-> IF k = key THEN v ELSE m[k]]

RECURSIVE ParseValue(_, _)
RECURSIVE ParseMembers(_, _, _)

\* After "{" or ",": a "key":value pair, then "," or "}". A repeated key
\* keeps its last value.
ParseMembers(s, i, m) ==
    IF i > Len(s) \/ s[i] # "\"" THEN SyntaxError
    ELSE LET key == ParseString(s, i + 1, <<>>)
         IN IF ~key.ok \/ key.pos > Len(s) \/ s[key.pos] # ":" THEN SyntaxError
            ELSE LET v == ParseValue(s, key.pos + 1)
                 IN IF ~v.ok \/ v.pos > Len(s) THEN SyntaxError
                    ELSE LET m2 == PutKey(m, key.val.str, v.val)
                         IN IF s[v.pos] = "}" THEN Parsed(Obj(m2), v.pos + 1)
                            ELSE IF s[v.pos] = "," THEN ParseMembers(s, v.pos + 1, m2)
                            ELSE SyntaxError

ParseValue(s, i) ==
    IF i > Len(s) THEN SyntaxError
    ELSE IF s[i] = "{"
         THEN IF i < Len(s) /\ s[i + 1] = "}" THEN Parsed(Obj(<<>>), i + 2)
              ELSE ParseMembers(s, i + 1, <<>>)
    ELSE IF s[i] = "\"" THEN ParseString(s, i + 1, <<>>)
    ELSE IF IsDigit(s[i]) THEN ParseNumber(s, i)
    ELSE SyntaxError

\* JSON.parse(text): the value, or a SyntaxError thrown.
JSONParse(text) ==
    LET r == ParseValue(text, 1)
    IN IF r.ok /\ r.pos = Len(text) + 1 THEN r ELSE SyntaxError

\* if (req.body.data): a form field is truthy when it was sent and is not "".
Truthy(v) == IsStr(v) /\ v.str # <<>>

\* A variant of ParsedData: the payload is never decoded.
ParsedData_NeverDecoded(data) == Obj(<<>>)

\* let parsedData = {}; if (req.body.data) try { JSON.parse } catch { {} }
ParsedData(data) ==
    IF Truthy(data)
    THEN LET r == JSONParse(data.str) IN IF r.ok THEN r.val ELSE Obj(<<>>)
    ELSE Obj(<<>>)

(***************************************************************************)
(*                     ProductSchema: casting, validation                  *)
(***************************************************************************)
CastError == [castError |-> 0]

\* An ObjectId is written Oid(n): the id of the n-th Product document saved
\* (Oid(0) is a well-formed id no document has). Any other text does not
\* cast to ObjectId.
Oid(n) == [oid |-> n]
CastObjectId(v) == IF DOMAIN v = {"oid"} THEN v ELSE CastError

\* String path; `trim: true` on name.
CastString(v, trim) ==
    IF IsStr(v) THEN (IF trim THEN Str(Trim(v.str)) ELSE v) ELSE v

\* Number path: "" casts to null, a digit string to its number, other text
\* fails to cast.
CastNumber(v) ==
    IF ~IsStr(v) THEN v
    ELSE IF v.str = <<>> THEN Null
    ELSE IF \A i \in DOMAIN v.str : IsDigit(v.str[i])
         THEN ParseDigits(v.str, 1, 0).val
    ELSE CastError

\* Boolean path: mongoose's convertToTrue / convertToFalse lists.
CastBoolean(v) ==
    IF ~IsStr(v) THEN v
    ELSE IF v.str \in {<<"t", "r", "u", "e">>, <<"1">>, <<"y", "e", "s">>} THEN Bool(TRUE)
    ELSE IF v.str \in {<<"f", "a", "l", "s", "e">>, <<"0">>, <<"n", "o">>} THEN Bool(FALSE)
    ELSE CastError

ScalarPaths == {"name", "description", "new_price", "old_price", "category", "available"}
RequiredPaths == {"name", "description", "new_price", "category"}

\* The value of a scalar path after the schema's cast.
CastPath(path, v) ==
    CASE path = "name" -> CastString(v, TRUE)
      [] path \in {"description", "category"} -> CastString(v, FALSE)
      [] path \in {"new_price", "old_price"} -> CastNumber(v)
      [] path = "available" -> CastBoolean(v)

\* `required: true`: the value is there, and a string is not empty.
Present(v) == v # Undefined /\ v # Null /\ v # Str(<<>>)

\* The schema's default for a path left undefined.
WithDefault(path, v) ==
    IF v # Undefined THEN v
    ELSE CASE path = "old_price" -> Num(0)
           [] path = "available" -> Bool(TRUE)
           [] OTHER -> Undefined

\* Whether document.save() passes validation: every path cast, every
\* required path present.
Validates(doc) ==
    /\ \A path \in ScalarPaths : doc[path] # CastError
    /\ \A path \in RequiredPaths : Present(doc[path])

(***************************************************************************)
(*                 CATALOG: /products create, list, update, delete         *)
(***************************************************************************)
\* The form fields the requests of the model send.
FieldsFull ==
    [name |-> Str(<<"s", "h", "o", "e">>), description |-> Str(<<"d">>),
     new_price |-> Str(<<"1", "0">>), old_price |-> Str(<<"5">>),
     category |-> Str(<<"c">>), available |-> Undefined, data |-> Undefined]
FieldsPadded ==
    [FieldsFull EXCEPT !.name = Str(<<" ", "b", "a", "g", " ">>),
                       !.old_price = Undefined,
                       !.available = Str(<<"f", "a", "l", "s", "e">>)]
FieldsNoName == [FieldsFull EXCEPT !.name = Undefined]
FieldsNone ==
    [name |-> Undefined, description |-> Undefined, new_price |-> Undefined,
     old_price |-> Undefined, category |-> Undefined, available |-> Undefined,
     data |-> Undefined]
FieldsBadPrice == [FieldsFull EXCEPT !.new_price = Str(<<"a", "b", "c">>)]

\* {"color":"red","size":42}
PayloadColor ==
    <<"{", "\"", "c", "o", "l", "o", "r", "\"", ":", "\"", "r", "e", "d", "\"", ",",
      "\"", "s", "i", "z", "e", "\"", ":", "4", "2", "}">>
\* {"a":1,"a":{"b":2}}
PayloadRepeat ==
    <<"{", "\"", "a", "\"", ":", "1", ",", "\"", "a", "\"", ":",
      "{", "\"", "b", "\"", ":", "2", "}", "}">>
\* {}
PayloadEmpty == <<"{", "}">>
\* {"a":1   (cut short)
PayloadBroken == <<"{", "\"", "a", "\"", ":", "1">>

Payloads == {PayloadColor, PayloadRepeat, PayloadEmpty, PayloadBroken, <<>>}

\* Requests that differ in their scalar fields.
ScalarFieldSets == {FieldsFull, FieldsPadded, FieldsNoName, FieldsNone, FieldsBadPrice}

\* Requests that differ in their `data` field.
DataFieldSets ==
    {FieldsFull} \cup {[FieldsFull EXCEPT !.data = Str(p)] : p \in Payloads}

\* Requests that differ in their files.
ImageFieldSets == {FieldsFull, FieldsBadPrice}

\* The :id of a request: the id of a document that may exist, a well-formed
\* id of none, or text that is no ObjectId.
RequestIds == {Oid(n) : n \in 0..MaxProducts} \cup {Str(<<"a", "b", "c">>)}

NoRequest ==
    [op |-> "none", status |-> 0, body |-> Null, id |-> Undefined, fields |-> Null,
     files |-> <<>>, stored |-> <<>>, before |-> <<>>]

Answer(op, status, body, id, fields, up) ==
    [op |-> op, status |-> status, body |-> body, id |-> id, fields |-> fields,
     files |-> up.files, stored |-> up.stored, before |-> products]

NoUpload == [route |-> "", files |-> <<>>, stored |-> <<>>]

SomethingWentWrong == [success |-> FALSE, error |-> "Something went wrong"]
ProductNotFound == [success |-> FALSE, error |-> "Product not found"]

\* req.files.map((file) => `/uploads/${file.filename}`)
ImagePaths(stored) == Arr([i \in DOMAIN stored |-> UploadPath(stored[i].filename)])

\* A variant of AvailableOf: the field is passed on as it came.
AvailableOf_AsSent(fields) == fields.available

\* available: req.body.available !== undefined ? req.body.available : true
AvailableOf(fields) == IF fields.available # Undefined THEN fields.available ELSE Bool(TRUE)

\* new Product({...}) of POST /products: every path cast, defaults applied.
NewProduct(id, fields, stored) ==
    [id |-> id,
     name |-> CastPath("name", fields.name),
     description |-> CastPath("description", fields.description),
     new_price |-> CastPath("new_price", fields.new_price),
     old_price |-> WithDefault("old_price", CastPath("old_price", fields.old_price)),
     category |-> CastPath("category", fields.category),
     images |-> ImagePaths(stored),
     data |-> ParsedData(fields.data),
     available |-> WithDefault("available", CastPath("available", AvailableOf(fields)))]

\* The position of the document with this id, or 0.
IndexOf(store, id) ==
    IF \E i \in DOMAIN store : store[i].id = id
    THEN CHOOSE i \in DOMAIN store : store[i].id = id
    ELSE 0

\* The request a handler starts on: upload u once multer has taken all its
\* files, or (u = 0) a request that carries no files, which multer passes on
\* as it is, req.files empty.
Uploaded(u, route) ==
    \/ u = 0
    \/ /\ u \in DOMAIN uploads
       /\ uploads[u].route = route
       /\ Len(uploads[u].stored) = Len(uploads[u].files)

UploadOf(u) == IF u = 0 THEN NoUpload ELSE uploads[u]

Handlers == {0} \cup DOMAIN uploads

\* POST /products: the handler, from the files multer stored to the answer.
CreateProduct(u, fields) ==
    /\ Uploaded(u, "POST")
    /\ nextId < MaxProducts
    /\ LET product == NewProduct(Oid(nextId + 1), fields, UploadOf(u).stored)
       IN IF Validates(product)
          THEN /\ products' = Append(products, product)
               /\ nextId' = nextId + 1
               /\ origin' = Append(origin, [data |-> fields.data, updated |-> FALSE,
                                           deleted |-> FALSE])
               /\ last' = Answer("create", 201, [success |-> TRUE, product |-> product],
                                 Undefined, fields, UploadOf(u))
          ELSE /\ last' = Answer("create", 500, SomethingWentWrong, Undefined, fields,
                                 UploadOf(u))
               /\ UNCHANGED <<products, nextId, origin>>
    /\ uploads' = IF u = 0 THEN uploads ELSE RemoveAt(uploads, u)
    /\ UNCHANGED <<now, stripUndefined>>
    /\ UNCHANGED authVars

\* GET /products
ListProducts ==
    /\ last' = Answer("list", 200, [success |-> TRUE, products |-> products],
                      Undefined, Null, NoUpload)
    /\ UNCHANGED <<products, nextId, now, uploads, origin, stripUndefined>>
    /\ UNCHANGED authVars

\* DELETE /products/:id: an id that does not cast throws (500); no document
\* with the id is 404; otherwise the document is removed and returned.
DeleteProduct(id) ==
    /\ LET i == IndexOf(products, id)
       IN IF CastObjectId(id) = CastError
          THEN /\ last' = Answer("delete", 500, SomethingWentWrong, id, Null, NoUpload)
               /\ UNCHANGED <<products, origin>>
          ELSE IF i = 0
          THEN /\ last' = Answer("delete", 404, ProductNotFound, id, Null, NoUpload)
               /\ UNCHANGED <<products, origin>>
          ELSE /\ products' = RemoveAt(products, i)
               /\ origin' = [origin EXCEPT ![id.oid].deleted = TRUE]
               /\ last' = Answer("delete", 200, [success |-> TRUE, product |-> products[i]],
                                 id, Null, NoUpload)
    /\ UNCHANGED <<nextId, now, uploads, stripUndefined>>
    /\ UNCHANGED authVars

\* A key the update object does not have (as opposed to one set to undefined).
Unset == [unset |-> 0]

\* const updatedData = {...}: the six scalars always, images only when files
\* came with the request, data only when the field is truthy.
UpdatedData(fields, stored) ==
    [name |-> fields.name,
     description |-> fields.description,
     new_price |-> fields.new_price,
     old_price |-> fields.old_price,
     category |-> fields.category,
     available |-> AvailableOf(fields),
     images |-> IF Len(stored) > 0 THEN ImagePaths(stored) ELSE Unset,
     data |-> IF Truthy(fields.data) THEN ParsedData(fields.data) ELSE Unset]

\* What findByIdAndUpdate makes of the update object before it is sent: each
\* scalar cast by the schema; a key set to undefined is dropped by a mongoose
\* that strips undefined keys and sent as null by one that does not.
CastUpdate(update, strip) ==
    [key \in DOMAIN update |->
        IF key \notin ScalarPaths THEN update[key]
        ELSE IF update[key] = Undefined THEN (IF strip THEN Unset ELSE Null)
        ELSE CastPath(key, update[key])]

\* A variant of ApplySet: new images are added to the old ones, and an
\* update without images clears them.
ApplySet_ImagesAppended(doc, update) ==
    [key \in DOMAIN doc |->
        IF key = "images"
        THEN (IF update[key] = Unset THEN Arr(<<>>) ELSE Arr(doc[key].arr \o update[key].arr))
        ELSE IF key \in DOMAIN update /\ update[key] # Unset THEN update[key]
        ELSE doc[key]]

\* $set: the document with every key of the update overwritten, the others
\* (and the keys the update does not have) as they were.
ApplySet(doc, update) ==
    [key \in DOMAIN doc |->
        IF key \in DOMAIN update /\ update[key] # Unset THEN update[key]
        ELSE doc[key]]

\* PUT /products/:id: the handler, from the files multer stored to the
\* answer. The id and the update are cast first (a failure throws: 500); no
\* validators run; no document with the id is 404.
UpdateProduct(u, id, fields) ==
    /\ Uploaded(u, "PUT")
    /\ LET update == CastUpdate(UpdatedData(fields, UploadOf(u).stored), stripUndefined)
           i == IndexOf(products, id)
       IN IF \/ CastObjectId(id) = CastError
             \/ \E key \in DOMAIN update : update[key] = CastError
          THEN /\ last' = Answer("update", 500, SomethingWentWrong, id, fields, UploadOf(u))
               /\ UNCHANGED <<products, origin>>
          ELSE IF i = 0
          THEN /\ last' = Answer("update", 404, ProductNotFound, id, fields, UploadOf(u))
               /\ UNCHANGED <<products, origin>>
          ELSE LET product == ApplySet(products[i], update)
               IN /\ products' = [products EXCEPT ![i] = product]
                  /\ origin' = [origin EXCEPT ![id.oid].updated =
                                   @ \/ fields.data # Undefined]
                  /\ last' = Answer("update", 200, [success |-> TRUE, product |-> product],
                                    id, fields, UploadOf(u))
    /\ uploads' = IF u = 0 THEN uploads ELSE RemoveAt(uploads, u)
    /\ UNCHANGED <<nextId, now, stripUndefined>>
    /\ UNCHANGED authVars

\* The catalog routes under requests without files that differ in their
\* scalar fields.
ScalarsNext ==
    \/ \E fields \in ScalarFieldSets : CreateProduct(0, fields)
    \/ ListProducts
    \/ \E id \in RequestIds : DeleteProduct(id)
    \/ \E id \in RequestIds, fields \in ScalarFieldSets : UpdateProduct(0, id, fields)

\* The catalog routes under requests that differ in their files.
ImagesNext ==
    \/ StartUpload(FileLists)
    \/ \E u \in DOMAIN uploads : UploadFile(u)
    \/ Tick
    \/ \E u \in Handlers, fields \in ImageFieldSets : CreateProduct(u, fields)
    \/ ListProducts
    \/ \E id \in RequestIds : DeleteProduct(id)
    \/ \E u \in Handlers, id \in RequestIds, fields \in ImageFieldSets :
          UpdateProduct(u, id, fields)

\* The catalog routes under requests without files that differ in `data`.
DataNext ==
    \/ \E fields \in DataFieldSets : CreateProduct(0, fields)
    \/ ListProducts
    \/ \E id \in RequestIds : DeleteProduct(id)
    \/ \E id \in RequestIds, fields \in DataFieldSets : UpdateProduct(0, id, fields)

\* The state after the process has started: both collections empty, no
\* request received, nothing uploaded.
Init ==
    /\ users = <<>>
    /\ reqs = <<>>
    /\ products = <<>>
    /\ nextId = 0
    /\ now = 0
    /\ uploads = <<>>
    /\ last = NoRequest
    /\ origin = <<>>
    /\ stripUndefined \in BOOLEAN

\* The account routes alone.
AuthSpec == Init /\ [][AuthNext]_vars

ScalarsSpec == Init /\ [][ScalarsNext]_vars
ImagesSpec == Init /\ [][ImagesNext]_vars
DataSpec == Init /\ [][DataNext]_vars

(***************************************************************************)
(* C1. Of two signup requests with the same email (and a password each),   *)
(* one that succeeds leaves the other answered 400 "Email already exists", *)
(* and the store holds exactly one record with that email.                 *)
(***************************************************************************)
SignupsDone(i, j) ==
    /\ i # j
    /\ reqs[i].kind = "signup" /\ reqs[j].kind = "signup"
    /\ reqs[i].pc = "done" /\ reqs[j].pc = "done"
    /\ reqs[i].email = reqs[j].email
    /\ reqs[i].password # Undefined /\ reqs[j].password # Undefined

C1_SecondSignupGets400 ==
    \A i, j \in DOMAIN reqs :
        (SignupsDone(i, j) /\ reqs[i].status = 200) =>
            /\ reqs[i].body = TokenFor([id |-> i])
            /\ reqs[j].status = 400
            /\ reqs[j].body = Failure("Email already exists")
            /\ Cardinality({k \in DOMAIN users : users[k].email = reqs[i].email}) = 1

(***************************************************************************)
(* C2. No two User records in the store have the same email, whatever the  *)
(* interleaving of the signup handlers' findOne, hash and save steps.      *)
(***************************************************************************)
C2_EmailUnique ==
    \A i, j \in DOMAIN users : users[i].email = users[j].email => i = j

\* Two signups with one email both passed findOne before either saved, and
\* both have run their save.
C2_RaceWitness ==
    \E i, j \in DOMAIN reqs :
        /\ SignupsDone(i, j)
        /\ reqs[i].found = Null /\ reqs[j].found = Null
        /\ reqs[i].hashed # Null /\ reqs[j].hashed # Null

(***************************************************************************)
(* C3. A login is answered with a token exactly when its lookup found a    *)
(* User with the given email and the given password matches that user's    *)
(* stored hash; no User gives 400 "Invalid Email", a User with a password  *)
(* that does not match gives 400 "Invalid Password"; a login step never    *)
(* changes the user store.                                                 *)
(***************************************************************************)
LoginDone(i) == reqs[i].kind = "login" /\ reqs[i].pc = "done"

HasToken(r) == "token" \in DOMAIN r.body

C3_LoginAnswers ==
    \A i \in DOMAIN reqs : LoginDone(i) =>
        LET r == reqs[i]
            matches == /\ r.found # Null
                       /\ r.password # Undefined
                       /\ BcryptCompare(r.password, r.found.password)
        IN /\ HasToken(r) <=> matches
           /\ matches => /\ r.status = 200
                          /\ r.body.success
                          /\ r.body.token.payload = [user |-> [id |-> r.found.id]]
           /\ r.found # Null => /\ r.found \in Range(users)
                                /\ r.found.email = r.email
           /\ r.found = Null => /\ r.status = 400
                                /\ r.body = Failure("Invalid Email")
           /\ (r.found # Null /\ r.password # Undefined /\ ~matches) =>
                  /\ r.status = 400
                  /\ r.body = Failure("Invalid Password")

C3_LoginSteps ==
    \A i \in DOMAIN reqs :
        (reqs[i].kind = "login" /\ reqs'[i] # reqs[i]) =>
            /\ users' = users
            /\ reqs[i].pc = "findOne" =>
                  (reqs'[i].found = Null <=>
                      ~\E k \in DOMAIN users : users[k].email = reqs[i].email)

C3_LoginTokenIff == []C3_LoginAnswers /\ [][C3_LoginSteps]_vars

\* One login was refused for its password and another was given a token.
C3_Witness ==
    /\ \E i \in DOMAIN reqs : LoginDone(i) /\ reqs[i].body = Failure("Invalid Password")
    /\ \E i \in DOMAIN reqs : LoginDone(i) /\ HasToken(reqs[i])

(***************************************************************************)
(* C4. A delete or update whose id matches no stored Product is answered   *)
(* 404 "Product not found" and leaves the catalog as it was.               *)
(***************************************************************************)
C4_UnknownIdIs404 ==
    (last.op \in {"delete", "update"} /\ IndexOf(last.before, last.id) = 0) =>
        /\ last.status = 404
        /\ last.body = ProductNotFound
        /\ products = last.before

(***************************************************************************)
(* C5. An update of an existing product without files leaves its images    *)
(* as they were; a successful one with files sets images to the paths of   *)
(* exactly the files of the request, in the order received; one that fails *)
(* changes nothing.                                                        *)
(***************************************************************************)
C5_UpdateImages ==
    (last.op = "update" /\ IndexOf(last.before, last.id) # 0) =>
        LET i == IndexOf(last.before, last.id)
            old == last.before[i]
        IN /\ Len(products) = Len(last.before)
           /\ products[i].id = old.id
           /\ last.files = <<>> => products[i].images = old.images
           /\ last.status # 200 => products = last.before
           /\ (last.files # <<>> /\ last.status = 200) =>
                 /\ Len(last.stored) = Len(last.files)
                 /\ \A k \in DOMAIN last.files : last.stored[k].file = last.files[k]
                 /\ products[i].images =
                       Arr([k \in DOMAIN last.files |->
                               <<"/uploads/", last.stored[k].filename>>])
                 /\ last.body.product.images = products[i].images

\* An update with two files has replaced images that were not empty.
C5_Witness ==
    /\ last.op = "update" /\ last.status = 200
    /\ Len(last.files) = 2
    /\ IndexOf(last.before, last.id) # 0
    /\ last.before[IndexOf(last.before, last.id)].images # Arr(<<>>)
    /\ last.before[IndexOf(last.before, last.id)].images # products[1].images

(***************************************************************************)
(* C6. A create or update request with a file whose extension or content   *)
(* type is outside the allow-list {jpeg, jpg, png, gif} is rejected: it    *)
(* does not reach the handler, and no Product is created or modified.      *)
(***************************************************************************)
AllowedExtensions == {<<".">> \o t : t \in AllowedTypes}
AllowedContentTypes == {<<"i", "m", "a", "g", "e", "/">> \o t : t \in AllowedTypes}

InAllowList(file) ==
    /\ ToLowerCase(ExtName(file.originalname)) \in AllowedExtensions
    /\ file.mimetype \in AllowedContentTypes

C6_OnlyAllowListedFilesAccepted ==
    (\E k \in DOMAIN last.files : ~InAllowList(last.files[k])) =>
        /\ last.op = "rejected"
        /\ products = last.before

(***************************************************************************)
(* C7. A product created with a `data` payload that is a JSON mapping is   *)
(* listed with exactly the decoded mapping as its data, as long as no      *)
(* update carrying `data` and no delete reached it.                        *)
(***************************************************************************)
JsonMappings ==
    {[text |-> PayloadColor,
      value |-> Obj((<<"c", "o", "l", "o", "r">> :> Str(<<"r", "e", "d">>))
                    @@ (<<"s", "i", "z", "e">> :> Num(42)))],
     [text |-> PayloadRepeat,
      value |-> Obj(<<"a">> :> Obj(<<"b">> :> Num(2)))],
     [text |-> PayloadEmpty, value |-> Obj(<<>>)]}

Listed(n) == {k \in DOMAIN last.body.products : last.body.products[k].id = Oid(n)}

DistinctNames(stored) ==
    \A i, j \in DOMAIN stored : i # j => stored[i].filename # stored[j].filename

C8_FilenamesUnique ==
    /\ \A u \in DOMAIN uploads : DistinctNames(uploads[u].stored)
    /\ DistinctNames(last.stored)

(***************************************************************************)
(* C9. As claimed: a successful update leaves each of the six scalar       *)
(* fields absent when the request omits it and equal to the supplied value *)
(* (as the schema casts it) when the request has it.                       *)
(***************************************************************************)
Updated == last.op = "update" /\ last.status = 200

Target == products[IndexOf(products, last.id)]

C9_UpdateOverwritesAllSix ==
    Updated =>
        \A path \in ScalarPaths :
            IF last.fields[path] = Undefined
            THEN Target[path] \in {Undefined, Null}
            ELSE Target[path] = CastPath(path, last.fields[path])

(***************************************************************************)
(* C9, as amended. A successful update writes each supplied scalar field   *)
(* as the schema casts it; an omitted `available` is written as true; each *)
(* of the other five, when omitted, is cleared (null) by a mongoose that   *)
(* sends undefined keys and left as it was by one that strips them.        *)
(***************************************************************************)
C9_UpdateScalars ==
    Updated =>
        LET old == last.before[IndexOf(last.before, last.id)]
        IN \A path \in ScalarPaths :
              IF last.fields[path] # Undefined
              THEN Target[path] = CastPath(path, last.fields[path])
              ELSE IF path = "available" THEN Target[path] = Bool(TRUE)
              ELSE IF stripUndefined THEN Target[path] = old[path]
              ELSE Target[path] = Null

\* An update without a name and without `available` succeeded on a product
\* that was not available.
C9_Witness ==
    /\ Updated
    /\ last.fields.name = Undefined /\ last.fields.available = Undefined
    /\ last.before[IndexOf(last.before, last.id)].available = Bool(FALSE)

(***************************************************************************)
(* C10. Every stored Product has name, description, new_price and category *)
(* present, and a create or update (of an existing product) that lacks one *)
(* of them fails with a validation error and stores nothing.               *)
(***************************************************************************)
C10_RequiredAlwaysPresent ==
    /\ \A i \in DOMAIN products : \A path \in RequiredPaths : Present(products[i][path])
    /\ (/\ last.op \in {"create", "update"}
        /\ last.op = "update" => IndexOf(last.before, last.id) # 0
        /\ \E path \in RequiredPaths : last.fields[path] = Undefined) =>
           /\ last.status = 500
           /\ products = last.before

====
